---- MODULE Spec2Model ----
(***************************************************************************)
(* Model of Carrot.py: BaseCarrot, a table of text fields parsed from a    *)
(* separator-delimited text stream.                                        *)
(*                                                                         *)
(* Text is a sequence of one-character strings.  A field is a text.  A row *)
(* parsed from the stream is a Python tuple of fields, modelled as a       *)
(* sequence of fields.  The row that add() appends is a Python str; every  *)
(* operation of the class that touches a row (len, indexing, str.join)     *)
(* treats a str as the sequence of its one-character strings, so a str row *)
(* is modelled as the sequence of its one-character fields.                *)
(***************************************************************************)
EXTENDS Integers, Sequences, FiniteSets, TLC

VARIABLES columns, lines, file, call, result, pre, prior

vars == <<columns, lines, file, call, result, pre, prior>>

\* ---------------------------------------------------------------- bounds
MaxRows == 2
MaxWrites == 2
MaxArgs == 3

\* ------------------------------------------------------------ characters
NL == "\n"
SEP == ","
Whitespace == {" ", "\n", "\t"}

NoField == <<>>
ArgFields == {<<"a">>, <<"9">>}
AddFields == {<<"a">>}
ColumnNames == {<<"k">>, <<"x">>}
DefaultValue == <<"U", "N", "D", "E", "F">>

\* initial contents of the stream handed to the constructor
InitialTexts ==
  { <<>>,
    <<"k", ",", "v">>,
    <<"k", "\n", "a", "\n">>,
    <<"k", ",", "v", "\n", "a", ",", "1">>,
    <<"k", ",", "v", "\n", "a", ",", "1", "\n", "a", ",", "2", "\n", "b", ",", "3">>,
    <<"k", ",", "v", "\n", "a", "\n", "b", ",", "2">> }

\* ------------------------------------------------------- text primitives
RECURSIVE RStrip(_)
RStrip(s) ==
  IF s = <<>> THEN s
  ELSE IF s[Len(s)] \in Whitespace THEN RStrip(SubSeq(s, 1, Len(s) - 1))
  ELSE s

RECURSIVE Split(_, _)
Split(s, c) ==
  LET hits == {i \in 1..Len(s) : s[i] = c} IN
  IF hits = {} THEN <<s>>
  ELSE LET i == CHOOSE j \in hits : \A h \in hits : j <= h IN
       <<SubSeq(s, 1, i - 1)>> \o Split(SubSeq(s, i + 1, Len(s)), c)

RECURSIVE Join(_, _)
Join(parts, s) ==
  IF parts = <<>> THEN <<>>
  ELSE IF Len(parts) = 1 THEN parts[1]
  ELSE parts[1] \o s \o Join(Tail(parts), s)

\* a Python str seen as the sequence of its one-character strings
StrRow(s) == [i \in 1..Len(s) |-> <<s[i]>>]

\* ------------------------------------------------------------- utilities
ParseText(text) ==
  LET physical == Split(RStrip(text), NL)
      all == [i \in 1..Len(physical) |-> Split(physical[i], SEP)]
  IN  [columns |-> Head(all), lines |-> Tail(all)]

SubmitRaw(cols, lns, s) ==
  Join(cols, s) \o Join([i \in 1..Len(lns) |-> Join(lns[i], s)], <<NL>>)

\* TextIOWrapper.write(): the text is put at the current position
FileWrite(f, raw) ==
  [content |-> SubSeq(f.content, 1, f.pos) \o raw
                 \o SubSeq(f.content, f.pos + Len(raw) + 1, Len(f.content)),
   pos |-> f.pos + Len(raw),
   writes |-> f.writes + 1]

\* zero-based position of the first occurrence, as list.index
ColumnIndex(cols, name) ==
  (CHOOSE i \in 1..Len(cols) :
     cols[i] = name /\ \A j \in 1..(i - 1) : cols[j] # name) - 1

InColumns(cols, name) == \E i \in 1..Len(cols) : cols[i] = name

\* --------------------------------------------------------------- results
Ok(kind, val) == [exc |-> "none", msg |-> "", kind |-> kind, val |-> val]
Raise(exc, msg) == [exc |-> exc, msg |-> msg, kind |-> "raise", val |-> <<>>]

UnknownColumn == Raise("CarrotError", "Couldn't find this column. Weird.")
TooFew == Raise("CarrotError", "Hum, there is missing columns, isn't it?")
TooMany == Raise("CarrotError", "Woops, there is too much columns!")

Call(op, a1, a2, a3, args, sub) ==
  [op |-> op, a1 |-> a1, a2 |-> a2, a3 |-> a3, args |-> args, sub |-> sub]

Snapshot == [columns |-> columns, lines |-> lines, file |-> file]

NoPrior == [op |-> "other", a1 |-> NoField, exc |-> "none",
            columns |-> <<>>, lines |-> <<>>]

\* what is remembered of the call before the last one
NextPrior ==
  IF call.op = "addColumn"
  THEN [op |-> "addColumn", a1 |-> call.a1, exc |-> result.exc,
        columns |-> pre.columns, lines |-> pre.lines]
  ELSE NoPrior

Record(c, r) ==
  /\ call' = c
  /\ result' = r
  /\ pre' = Snapshot
  /\ prior' = NextPrior

\* ------------------------------------------------ outcomes of the methods
\* len(list(filter((len(self.columns)).__ne__, lengths))) is the number of
\* rows whose length differs from the number of columns
VerifyIntegrityOutcome(cols, lns, errorValue) ==
  IF Cardinality({i \in 1..Len(lns) : Len(lns[i]) # Len(cols)}) # 0
  THEN IF errorValue = "None" THEN Ok("False", <<>>) ELSE Ok(errorValue, <<>>)
  ELSE Ok("True", <<>>)

\* calls _verify_integrity() and drops its value: the method returns None
PublicVerifyIntegrityOutcome(cols, lns) ==
  LET inner == VerifyIntegrityOutcome(cols, lns, "None") IN
  IF inner.exc = "none" THEN Ok("None", <<>>) ELSE inner

\* rows on which line[column_id] raises IndexError
TooShort(lns, id) == {i \in 1..Len(lns) : Len(lns[i]) < id + 1}

Matching(lns, id, data) ==
  {i \in 1..Len(lns) : Len(lns[i]) >= id + 1 /\ lns[i][id + 1] = data}

IndexError == Raise("IndexError", "tuple index out of range")

FindOutcome(cols, lns, name, data) ==
  IF ~InColumns(cols, name) THEN UnknownColumn
  ELSE LET id == ColumnIndex(cols, name)
           stop == TooShort(lns, id) \cup Matching(lns, id, data)
       IN  IF stop = {} THEN Ok("None", <<>>)
           ELSE LET i == CHOOSE j \in stop : \A h \in stop : j <= h IN
                IF i \in TooShort(lns, id) THEN IndexError
                ELSE Ok("row", <<lns[i]>>)

RECURSIVE Matchs(_, _, _)
Matchs(lns, id, data) ==
  IF lns = <<>> THEN <<>>
  ELSE (IF Head(lns)[id + 1] = data THEN <<Head(lns)>> ELSE <<>>)
         \o Matchs(Tail(lns), id, data)

FindAllOutcome(cols, lns, name, data) ==
  IF ~InColumns(cols, name) THEN UnknownColumn
  ELSE LET id == ColumnIndex(cols, name) IN
       IF TooShort(lns, id) # {} THEN IndexError
       ELSE LET matchs == Matchs(lns, id, data) IN
            IF Len(matchs) # 0 THEN Ok("list", matchs) ELSE Ok("None", <<>>)

GetColumnOutcome(cols, lns, name) ==
  IF ~InColumns(cols, name) THEN UnknownColumn
  ELSE LET id == ColumnIndex(cols, name) IN
       IF TooShort(lns, id) # {} THEN IndexError
       ELSE Ok("list", <<[i \in 1..Len(lns) |-> lns[i][id + 1]]>>)

\* self.columns is the tuple popped from the parsed list and self.lines is a
\* list: tuple + list raises TypeError
ToListOutcome(cols, lns) ==
  Raise("TypeError", "can only concatenate tuple (not \"list\") to tuple")

Outcome(r, cols, lns) == [r |-> r, columns |-> cols, lines |-> lns]

\* add() without the check for too many fields
AddOutcomeNoUpperCheck(cols, lns, args) ==
  IF Len(args) < Len(cols) THEN Outcome(TooFew, cols, lns)
  ELSE Outcome(Ok("None", <<>>), cols,
               Append(lns, StrRow(<<NL>> \o Join(args, <<SEP>>))))

AddOutcome(cols, lns, args) ==
  IF Len(args) < Len(cols) THEN Outcome(TooFew, cols, lns)
  ELSE IF Len(args) > Len(cols) THEN Outcome(TooMany, cols, lns)
  ELSE Outcome(Ok("None", <<>>), cols,
               Append(lns, StrRow(<<NL>> \o Join(args, <<SEP>>))))

\* column_id is bound to the method self._column_id, which is never called;
\* line[column_id] raises TypeError on the first row, and the loop body is
\* not reached when there is no row
SetOutcome(cols, lns, column, columnMatch, newValue) ==
  IF lns = <<>> THEN Outcome(Ok("None", <<>>), cols, lns)
  ELSE Outcome(Raise("TypeError", "indices must be integers or slices, not method"),
               cols, lns)

SetAllOutcome(cols, lns, column, columnMatch, newValue) ==
  IF lns = <<>> THEN Outcome(Ok("None", <<>>), cols, lns)
  ELSE Outcome(Raise("TypeError", "indices must be integers or slices, not method"),
               cols, lns)

\* self.columns is a tuple: it has no append
AddColumnOutcome(cols, lns, name, defaultValue) ==
  Outcome(Raise("AttributeError", "'tuple' object has no attribute 'append'"),
          cols, lns)

\* removeColumn() on a list of columns: the column is popped before
\* line.pop fails on the first row
RemoveColumnPopsColumnsFirst(cols, lns, column) ==
  IF ~InColumns(cols, column) THEN Outcome(UnknownColumn, cols, lns)
  ELSE LET id == ColumnIndex(cols, column)
           popped == SubSeq(cols, 1, id) \o SubSeq(cols, id + 2, Len(cols))
       IN  IF lns = <<>> THEN Outcome(Ok("None", <<>>), popped, lns)
           ELSE Outcome(Raise("AttributeError", "'tuple' object has no attribute 'pop'"),
                        popped, lns)

\* self.columns is a tuple: it has no pop
RemoveColumnOutcome(cols, lns, column) ==
  IF ~InColumns(cols, column) THEN Outcome(UnknownColumn, cols, lns)
  ELSE Outcome(Raise("AttributeError", "'tuple' object has no attribute 'pop'"),
               cols, lns)

\* ------------------------------------------------------------------ Init
Init ==
  /\ \E text \in InitialTexts :
       /\ file = [content |-> text, pos |-> Len(text), writes |-> 0]
       /\ columns = ParseText(text).columns
       /\ lines = ParseText(text).lines
       /\ pre = [columns |-> <<>>, lines |-> <<>>,
                 file |-> [content |-> text, pos |-> 0, writes |-> 0]]
  /\ call = Call("__init__", NoField, NoField, NoField, <<>>, FALSE)
  /\ result = Ok("None", <<>>)
  /\ prior = NoPrior

\* ------------------------------------------------------------- utilities
submit ==
  LET raw == SubmitRaw(columns, lines, <<SEP>>) IN
  /\ file.writes < MaxWrites
  /\ file' = FileWrite(file, raw)
  /\ UNCHANGED <<columns, lines>>
  /\ Record(Call("submit", <<SEP>>, NoField, NoField, <<>>, TRUE), Ok("None", <<>>))

_verify_integrity ==
  \E errorValue \in {"None", "BAD"} :
    /\ UNCHANGED <<columns, lines, file>>
    /\ Record(Call("_verify_integrity", <<errorValue>>, NoField, NoField, <<>>, FALSE),
              VerifyIntegrityOutcome(columns, lines, errorValue))

verify_integrity ==
  /\ UNCHANGED <<columns, lines, file>>
  /\ Record(Call("verify_integrity", NoField, NoField, NoField, <<>>, FALSE),
            PublicVerifyIntegrityOutcome(columns, lines))

\* ---------------------------------------------------------- read methods
find ==
  \E name \in ColumnNames, data \in ArgFields :
    /\ UNCHANGED <<columns, lines, file>>
    /\ Record(Call("find", name, data, NoField, <<>>, FALSE),
              FindOutcome(columns, lines, name, data))

findAll ==
  \E name \in ColumnNames, data \in ArgFields :
    /\ UNCHANGED <<columns, lines, file>>
    /\ Record(Call("findAll", name, data, NoField, <<>>, FALSE),
              FindAllOutcome(columns, lines, name, data))

getColumn ==
  \E name \in ColumnNames :
    /\ UNCHANGED <<columns, lines, file>>
    /\ Record(Call("getColumn", name, NoField, NoField, <<>>, FALSE),
              GetColumnOutcome(columns, lines, name))

toList ==
  /\ UNCHANGED <<columns, lines, file>>
  /\ Record(Call("toList", NoField, NoField, NoField, <<>>, FALSE),
            ToListOutcome(columns, lines))

\* --------------------------------------------------------- write methods
\* the tail shared by the write methods: if _submit: self.submit()
Mutate(c, out) ==
  /\ columns' = out.columns
  /\ lines' = out.lines
  /\ IF out.r.exc = "none" /\ c.sub
     THEN LET raw == SubmitRaw(out.columns, out.lines, <<SEP>>) IN
          /\ file.writes < MaxWrites
          /\ file' = FileWrite(file, raw)
     ELSE file' = file
  /\ Record(c, out.r)

add ==
  \E n \in 0..MaxArgs, sub \in BOOLEAN :
    \E args \in [1..n -> AddFields] :
      /\ Len(args) = Len(columns) => Len(lines) < MaxRows
      /\ Mutate(Call("add", NoField, NoField, NoField, args, sub),
                AddOutcome(columns, lines, args))

set ==
  \E column \in ColumnNames, columnMatch \in ArgFields, sub \in BOOLEAN :
    Mutate(Call("set", column, columnMatch, <<"9">>, <<>>, sub),
           SetOutcome(columns, lines, column, columnMatch, <<"9">>))

setAll ==
  \E column \in ColumnNames, columnMatch \in ArgFields, sub \in BOOLEAN :
    Mutate(Call("setAll", column, columnMatch, <<"9">>, <<>>, sub),
           SetAllOutcome(columns, lines, column, columnMatch, <<"9">>))

addColumn ==
  \E name \in ColumnNames, sub \in BOOLEAN :
    Mutate(Call("addColumn", name, DefaultValue, NoField, <<>>, sub),
           AddColumnOutcome(columns, lines, name, DefaultValue))

removeColumn ==
  \E column \in ColumnNames, sub \in BOOLEAN :
    Mutate(Call("removeColumn", column, NoField, NoField, <<>>, sub),
           RemoveColumnOutcome(columns, lines, column))

\* --------------------------------------------------------- specification
Next ==
  \/ submit
  \/ _verify_integrity
  \/ verify_integrity
  \/ find
  \/ findAll
  \/ getColumn
  \/ toList
  \/ add
  \/ set
  \/ setAll
  \/ addColumn
  \/ removeColumn

Spec == Init /\ [][Next]_vars

\* ------------------------------------------------------------ properties
Mutations == {"add", "set", "setAll", "addColumn", "removeColumn"}

\* the text the last call wrote to the stream
Written == SubSeq(file.content, pre.file.pos + 1, file.pos)

\* no field holds the separator or a newline
Clean(cols, lns) ==
  /\ \A i \in 1..Len(cols) : \A j \in 1..Len(cols[i]) : cols[i][j] \notin {SEP, NL}
  /\ \A r \in 1..Len(lns) : \A i \in 1..Len(lns[r]) :
       \A j \in 1..Len(lns[r][i]) : lns[r][i][j] \notin {SEP, NL}

WellFormed(cols, lns) == \A i \in 1..Len(lns) : Len(lns[i]) = Len(cols)

\* C1: parsing the text that submit serializes from a table whose fields hold
\* no separator and no newline yields the table's columns and rows again.
C1_RoundTrip ==
  (call.op = "submit" /\ Clean(columns, lines))
    => ParseText(Written) = [columns |-> columns, lines |-> lines]

\* C2: after a mutation run with autoWrite the stream holds exactly the
\* serialization of the current columns and rows, nothing before or after it.
C2_FullOverwrite ==
  (call.op \in Mutations /\ call.sub /\ result.exc = "none")
    => file.content = SubmitRaw(columns, lines, <<SEP>>)

\* C3: add with len(columns) fields succeeds and the row count grows by one;
\* with one field fewer or one more it fails with the too-few or the too-many
\* error and the row count is unchanged.
C3_AddCount ==
  call.op = "add" =>
    /\ Len(call.args) = Len(pre.columns)
         => result.exc = "none" /\ Len(lines) = Len(pre.lines) + 1
    /\ Len(call.args) = Len(pre.columns) - 1
         => result = TooFew /\ Len(lines) = Len(pre.lines)
    /\ Len(call.args) = Len(pre.columns) + 1
         => result = TooMany /\ Len(lines) = Len(pre.lines)
    /\ TooFew # TooMany

C3_Witness ==
  /\ call.op = "add"
  /\ Len(call.args) = Len(pre.columns)
  /\ Len(pre.columns) = 2
  /\ result.exc = "none"
  /\ Len(lines) = Len(pre.lines) + 1

\* C4: set replaces the field of the named column in the first row whose field
\* equals matchValue, setAll in every such row; all else is unchanged, and
\* nothing changes when no row matches.
C4_SetFirstSetAll ==
  (call.op \in {"set", "setAll"} /\ InColumns(pre.columns, call.a1)) =>
    LET id == ColumnIndex(pre.columns, call.a1) + 1
        m == {i \in 1..Len(pre.lines) :
                Len(pre.lines[i]) >= id /\ pre.lines[i][id] = call.a2}
        first == {i \in m : \A h \in m : i <= h}
        hit == IF call.op = "set" THEN first ELSE m
    IN  lines = [i \in 1..Len(pre.lines) |->
                   IF i \in hit THEN [pre.lines[i] EXCEPT ![id] = call.a3]
                   ELSE pre.lines[i]]

\* C5: every operation addressed by column name fails with the unknown-column
\* error when the name is not in columns.
C5_UnknownColumn ==
  (/\ call.op \in {"find", "findAll", "getColumn", "set", "setAll", "removeColumn"}
   /\ ~InColumns(pre.columns, call.a1))
    => result = UnknownColumn

\* C6: a mutation either completes, write-back included when enabled, or
\* fails with columns, rows and the stream all as they were before the call.
C6_NoPartialSuccess ==
  call.op \in Mutations =>
    /\ result.exc # "none"
         => columns = pre.columns /\ lines = pre.lines /\ file = pre.file
    /\ (result.exc = "none" /\ call.sub)
         => /\ file.writes = pre.file.writes + 1
            /\ Written = SubmitRaw(columns, lines, <<SEP>>)
    /\ (result.exc = "none" /\ ~call.sub) => file = pre.file

C6_Witness ==
  /\ call.op = "removeColumn"
  /\ InColumns(pre.columns, call.a1)
  /\ pre.lines # <<>>
  /\ result.exc = "AttributeError"
  /\ columns = pre.columns

\* C7: addColumn(name, default) followed by removeColumn(name) restores the
\* original columns and rows.
C7_AddRemoveSymmetry ==
  (/\ call.op = "removeColumn"
   /\ prior.op = "addColumn"
   /\ prior.a1 = call.a1
   /\ ~InColumns(prior.columns, call.a1))
    => /\ prior.exc = "none"
       /\ result.exc = "none"
       /\ columns = prior.columns
       /\ lines = prior.lines

\* C8: the integrity check returns true iff every row has len(columns)
\* fields, and otherwise false, or the sentinel when one is given.
C8_Integrity ==
  call.op \in {"_verify_integrity", "verify_integrity"} =>
    /\ result.exc = "none"
    /\ WellFormed(columns, lines) => result.kind = "True"
    /\ ~WellFormed(columns, lines) =>
         result.kind = IF call.a1 \in {NoField, <<"None">>} THEN "False"
                       ELSE call.a1[1]

\* C9: toList returns the columns as its first element followed by the rows
\* in storage order, 1 + the number of rows elements in all.
C9_ToList ==
  call.op = "toList" =>
    /\ result.exc = "none"
    /\ result.val = <<columns>> \o lines
    /\ Len(result.val) = 1 + Len(lines)

\* C10: on a table whose rows all have len(columns) fields, a successful
\* mutation leaves every row with exactly len(columns) fields.
C10_RowWidth ==
  (/\ call.op \in Mutations
   /\ result.exc = "none"
   /\ WellFormed(pre.columns, pre.lines))
    => WellFormed(columns, lines)

====
